---------------------------- MODULE Spec2Model ----------------------------
(***************************************************************************)
(* Model of Medical_Data_Anonymizer_ModuleWidget (3D Slicer module):       *)
(* onAnonymizeButton (the batch orchestrator with its extractor and writer *)
(* dispatch), anonymize_text_presidio (the policy engine glue) and         *)
(* extract_text_from_xml.                                                  *)
(*                                                                         *)
(* Strings are sequences of one-character strings, so that endswith,       *)
(* startswith, splitext, lower and replace are computed as Python computes *)
(* them.  A replacement label such as "<PERSON>" is one element.           *)
(***************************************************************************)
EXTENDS Integers, Sequences, FiniteSets, TLC

(***************************************************************************)
(* Bounds of the model.                                                    *)
(***************************************************************************)
\* Longest short text given to anonymize_text_presidio.
MaxLen == 3
\* Largest number of spans analyzer.analyze returns.
MaxSpans == 2
\* By how many characters the long text exceeds chars_to_mask.
MaxOver == 2
\* Largest number of directory entries under the input directory.
MaxFiles == 2
\* Largest number of accepted clicks on the Anonymize button in a behaviour.
MaxClicks == 2

(***************************************************************************)
(* Python string operations used by the module.                            *)
(***************************************************************************)
\* str.startswith(prefix)
StartsWith(s, p) ==
  /\ Len(p) <= Len(s)
  /\ SubSeq(s, 1, Len(p)) = p

\* str.endswith(suffix)
EndsWith(s, p) ==
  /\ Len(p) <= Len(s)
  /\ SubSeq(s, Len(s) - Len(p) + 1, Len(s)) = p

\* str.lower() on one character (the letters that occur in the model).
LowerChar(c) ==
  CASE c = "N" -> "n"
    [] c = "T" -> "t"
    [] c = "X" -> "x"
    [] c = "J" -> "j"
    [] OTHER -> c

\* str.lower()
Lower(s) == [i \in 1..Len(s) |-> LowerChar(s[i])]

\* str.rfind(c) + 1: the 1-based index of the last occurrence, 0 if none.
LastIndexOf(s, c) ==
  LET hits == {i \in 1..Len(s) : s[i] = c}
  IN  IF hits = {} THEN 0 ELSE CHOOSE i \in hits : \A j \in hits : j <= i

\* os.path.join(root, file) for a relative file name.
PathJoin(root, file) == root \o <<"/">> \o file

\* os.path.basename(path): what follows the last separator.
Basename(path) == SubSeq(path, LastIndexOf(path, "/") + 1, Len(path))

\* os.path.splitext(name)[1] of a name without separators: from the last
\* dot on, unless only dots precede that dot (a leading-dot name has no
\* extension).
SplitExt(name) ==
  LET d == LastIndexOf(name, ".")
  IN  IF d > 0 /\ \E j \in 1..(d - 1) : name[j] # "."
        THEN SubSeq(name, d, Len(name))
        ELSE <<>>

\* str.replace(old, new): every non-overlapping occurrence, left to right.
RECURSIVE Replace(_, _, _)
Replace(s, old, new) ==
  IF Len(s) = 0 THEN <<>>
  ELSE IF StartsWith(s, old)
    THEN new \o Replace(SubSeq(s, Len(old) + 1, Len(s)), old, new)
    ELSE <<Head(s)>> \o Replace(Tail(s), old, new)

\* str.split("\n")
RECURSIVE SplitLines(_)
SplitLines(s) ==
  LET nl == {i \in 1..Len(s) : s[i] = "\n"}
  IN  IF nl = {} THEN <<s>>
      ELSE LET i == CHOOSE k \in nl : \A j \in nl : k <= j
           IN  <<SubSeq(s, 1, i - 1)>> \o SplitLines(SubSeq(s, i + 1, Len(s)))

\* str.split(): the maximal runs of non-whitespace characters.
RECURSIVE SplitWords(_)
SplitWords(s) ==
  LET IsWs(c) == c \in {" ", "\n"}
      nonWs == {i \in 1..Len(s) : ~IsWs(s[i])}
  IN  IF nonWs = {} THEN <<>>
      ELSE LET b == CHOOSE k \in nonWs : \A j \in nonWs : k <= j
               ends == {i \in b..Len(s) : i = Len(s) \/ IsWs(s[i + 1])}
               e == CHOOSE k \in ends : \A j \in ends : k <= j
           IN  <<SubSeq(s, b, e)>> \o SplitWords(SubSeq(s, e + 1, Len(s)))

\* sep.join(parts)
RECURSIVE JoinWith(_, _)
JoinWith(sep, parts) ==
  IF Len(parts) = 0 THEN <<>>
  ELSE IF Len(parts) = 1 THEN parts[1]
  ELSE parts[1] \o sep \o JoinWith(sep, Tail(parts))

(***************************************************************************)
(* File names and directories.                                             *)
(***************************************************************************)
ExtDocx == <<".", "d", "o", "c", "x">>
ExtTxt == <<".", "t", "x", "t">>
ExtPdf == <<".", "p", "d", "f">>
ExtCsv == <<".", "c", "s", "v">>
ExtXml == <<".", "x", "m", "l">>
ExtOdt == <<".", "o", "d", "t">>

\* The tuple given to file.endswith at discovery.
SupportedSuffixes == {ExtDocx, ExtTxt, ExtPdf, ExtCsv, ExtXml, ExtOdt}

\* The prefix given to file.startswith at discovery.
LockPrefix == <<"~", "$">>

\* "_anonymized"
Marker == <<"_", "a", "n", "o", "n", "y", "m", "i", "z", "e", "d">>

\* "file_mappings.csv"
ReportName ==
  <<"f", "i", "l", "e", "_", "m", "a", "p", "p", "i", "n", "g", "s">> \o ExtCsv

InputFolder == <<"i">>
SubFolder == PathJoin(InputFolder, <<"s">>)
OutputFolder == <<"o">>

\* The names a directory of the input tree may hold, in listing order.
NameUniverse ==
  << <<"n">> \o ExtTxt,
     <<"n">> \o ExtOdt,
     <<"n">> \o ExtTxt \o ExtTxt,
     ExtTxt,
     LockPrefix \o <<"n">> \o ExtDocx,
     <<"n", ".", "p", "n", "g">>,
     <<"N", ".", "T", "X", "T">>,
     <<"n">> \o ExtDocx,
     <<"n">> \o ExtPdf,
     <<"n">> \o ExtCsv,
     <<"n">> \o ExtXml >>

\* The names the subdirectory may hold.
SubUniverse == << <<"n">> \o ExtTxt >>

\* The sub-sequence of u at the positions in keep, in u's order.
RECURSIVE Pick(_, _)
Pick(u, keep) ==
  IF Len(u) = 0 THEN <<>>
  ELSE LET rest == Pick(SubSeq(u, 1, Len(u) - 1), keep)
       IN  IF Len(u) \in keep THEN Append(rest, u[Len(u)]) ELSE rest

\* The directory trees of the model, as os.walk yields them (top-down):
\* a sequence of [root, files].
Trees ==
  { << [root |-> InputFolder, files |-> Pick(NameUniverse, a)],
       [root |-> SubFolder, files |-> Pick(SubUniverse, b)] >> :
      <<a, b>> \in
        { ab \in (SUBSET (1..Len(NameUniverse))) \X (SUBSET (1..Len(SubUniverse))) :
            Cardinality(ab[1]) + Cardinality(ab[2]) <= MaxFiles } }

(***************************************************************************)
(* Discovery: the os.walk loop of onAnonymizeButton.                       *)
(***************************************************************************)
\* The filter applied to each file name of the walk.
IsSupportedFile(file) ==
  /\ \E suf \in SupportedSuffixes : EndsWith(file, suf)
  /\ ~StartsWith(file, LockPrefix)

\* The supported files of one directory, joined with its root.
RECURSIVE DirFiles(_, _)
DirFiles(root, files) ==
  IF Len(files) = 0 THEN <<>>
  ELSE (IF IsSupportedFile(Head(files))
          THEN <<PathJoin(root, Head(files))>>
          ELSE <<>>) \o DirFiles(root, Tail(files))

\* supported_files after the walk.
RECURSIVE SupportedFiles(_)
SupportedFiles(walk) ==
  IF Len(walk) = 0 THEN <<>>
  ELSE DirFiles(Head(walk).root, Head(walk).files) \o SupportedFiles(Tail(walk))

\* Every path of the tree, supported or not.
RECURSIVE AllPaths(_)
AllPaths(walk) ==
  IF Len(walk) = 0 THEN {}
  ELSE {PathJoin(Head(walk).root, Head(walk).files[i]) :
          i \in 1..Len(Head(walk).files)} \cup AllPaths(Tail(walk))

(***************************************************************************)
(* Contents of the input files, by format.                                 *)
(***************************************************************************)
\* A .docx document: its paragraphs.
DocxParagraphs == << <<"J">>, <<"o">> >>
\* A .txt file: its text.
TxtContent == <<"J", "o">>
\* A .csv file: its rows of cells.
CsvRows == << << <<"J">>, <<"o">> >> >>
\* An .xml file: its root element (text, children, tail).
XmlRoot ==
  [text |-> <<"J">>,
   children |-> << [text |-> <<"o">>, children |-> <<>>, tail |-> <<>>] >>,
   tail |-> <<>>]
\* An .odt document: its paragraphs, each a sequence of child nodes.
OdtParagraphs ==
  << << [isText |-> TRUE, data |-> <<"J">>],
        [isText |-> FALSE, data |-> <<"o">>] >> >>
\* A .pdf document: its pages (text layer, tables of rows of cells; an
\* empty sequence stands for None).
PdfPages ==
  << [text |-> <<"J">>, tables |-> << << << <<"J">>, <<>> >> >> >>],
     [text |-> <<>>, tables |-> << << << <<"o">> >> >> >>] >>

(***************************************************************************)
(* Extraction: the first dispatch on file_ext.                             *)
(***************************************************************************)
\* Recursively extract text from XML elements.
RECURSIVE extract_text_from_xml(_)
RECURSIVE XmlChildrenText(_)
XmlChildrenText(children) ==
  IF Len(children) = 0 THEN <<>>
  ELSE extract_text_from_xml(Head(children))
         \o (IF Head(children).tail # <<>>
               THEN Head(children).tail \o <<" ">> ELSE <<>>)
         \o XmlChildrenText(Tail(children))

extract_text_from_xml(element) ==
  (IF element.text # <<>> THEN element.text \o <<" ">> ELSE <<>>)
    \o XmlChildrenText(element.children)

\* "\n".join([para.text for para in doc.paragraphs])
ExtractDocx(paragraphs) == JoinWith(<<"\n">>, paragraphs)

\* full_text += " ".join(row) + "\n" for each row of the reader.
RECURSIVE ExtractCsv(_)
ExtractCsv(rows) ==
  IF Len(rows) = 0 THEN <<>>
  ELSE JoinWith(<<" ">>, Head(rows)) \o <<"\n">> \o ExtractCsv(Tail(rows))

\* The text nodes of each paragraph, then "\n".
RECURSIVE OdtNodesText(_)
OdtNodesText(nodes) ==
  IF Len(nodes) = 0 THEN <<>>
  ELSE (IF Head(nodes).isText THEN Head(nodes).data ELSE <<>>)
         \o OdtNodesText(Tail(nodes))

RECURSIVE ExtractOdt(_)
ExtractOdt(paragraphs) ==
  IF Len(paragraphs) = 0 THEN <<>>
  ELSE OdtNodesText(Head(paragraphs)) \o <<"\n">> \o ExtractOdt(Tail(paragraphs))

\* The first pass over the pages: text + "\n" for each page with text.
RECURSIVE PdfTextPass(_)
PdfTextPass(pages) ==
  IF Len(pages) = 0 THEN <<>>
  ELSE (IF Head(pages).text # <<>> THEN Head(pages).text \o <<"\n">> ELSE <<>>)
         \o PdfTextPass(Tail(pages))

\* One table: " ".join([str(cell) if cell else "" ...]) + "\n" per row.
RECURSIVE PdfRowsText(_)
PdfRowsText(rows) ==
  IF Len(rows) = 0 THEN <<>>
  ELSE JoinWith(<<" ">>, Head(rows)) \o <<"\n">> \o PdfRowsText(Tail(rows))

RECURSIVE PdfTablesText(_)
PdfTablesText(tables) ==
  IF Len(tables) = 0 THEN <<>>
  ELSE PdfRowsText(Head(tables)) \o PdfTablesText(Tail(tables))

\* The second pass over the pages, run when the first raised.
RECURSIVE PdfTablePass(_)
PdfTablePass(pages) ==
  IF Len(pages) = 0 THEN <<>>
  ELSE PdfTablesText(Head(pages).tables) \o PdfTablePass(Tail(pages))

\* The .pdf branch.  textFailAt = k > 0: the first pass raises at page k
\* (k = 1 also stands for pdfplumber.open raising); tableFailAt likewise for
\* the second pass; 0: no failure.  The second pass runs only when the first
\* raised, and appends to what the first had collected.
ExtractPdf(pages, textFailAt, tableFailAt) ==
  IF textFailAt = 0 THEN PdfTextPass(pages)
  ELSE PdfTextPass(SubSeq(pages, 1, textFailAt - 1))
         \o PdfTablePass(IF tableFailAt = 0 THEN pages
                         ELSE SubSeq(pages, 1, tableFailAt - 1))

\* "Unsupported file type: "
UnsupportedMsg == <<"Unsupported file type: ">>

\* The first if/elif chain on file_ext, for a file that is read without
\* error: [raised, text or message].
ExtractText(file_ext, textFailAt, tableFailAt) ==
  CASE file_ext = ExtDocx -> [raised |-> FALSE, text |-> ExtractDocx(DocxParagraphs)]
    [] file_ext = ExtTxt -> [raised |-> FALSE, text |-> TxtContent]
    [] file_ext = ExtPdf ->
         [raised |-> FALSE, text |-> ExtractPdf(PdfPages, textFailAt, tableFailAt)]
    [] file_ext = ExtCsv -> [raised |-> FALSE, text |-> ExtractCsv(CsvRows)]
    [] file_ext = ExtXml -> [raised |-> FALSE, text |-> extract_text_from_xml(XmlRoot)]
    [] file_ext = ExtOdt -> [raised |-> FALSE, text |-> ExtractOdt(OdtParagraphs)]
    [] OTHER -> [raised |-> TRUE, text |-> UnsupportedMsg \o file_ext]

(***************************************************************************)
(* The policy engine: anonymize_text_presidio and its two collaborators.   *)
(***************************************************************************)
\* The entity types of the checkboxes built in setup.
EntityTypes ==
  {"PERSON", "PHONE_NUMBER", "EMAIL_ADDRESS", "DATE_TIME", "LOCATION", "US_SSN",
   "MEDICAL_LICENSE", "US_DRIVER_LICENSE", "CREDIT_CARD", "US_BANK_NUMBER",
   "IP_ADDRESS", "URL"}

\* The checkboxes setChecked(True) in setup.
DefaultChecked ==
  {"PERSON", "PHONE_NUMBER", "EMAIL_ADDRESS", "DATE_TIME", "LOCATION", "US_SSN",
   "MEDICAL_LICENSE"}

\* The data of the items of anonymizationMethodCombo.
Methods == {"replace", "redact", "hash", "mask"}

\* chars_to_mask of the mask operator.
CharsToMask == 100

\* The mask operator's configuration.
MaskConfig ==
  [op |-> "mask", masking_char |-> "*", chars_to_mask |-> CharsToMask,
   from_end |-> FALSE]

\* The same operator masking from the end of the span.
MaskConfigFromEnd ==
  [op |-> "mask", masking_char |-> "*", chars_to_mask |-> CharsToMask,
   from_end |-> TRUE]

\* The same dictionary with the mask operator masking from the end.
BuildOperatorsFromEnd(method, entities) ==
  CASE method = "redact" ->
         [e \in entities |-> [op |-> "redact", masking_char |-> "",
                              chars_to_mask |-> 0, from_end |-> FALSE]]
    [] method = "hash" ->
         [e \in entities |-> [op |-> "hash", masking_char |-> "",
                              chars_to_mask |-> 0, from_end |-> FALSE]]
    [] method = "mask" -> [e \in entities |-> MaskConfigFromEnd]
    [] OTHER -> [e \in {} |-> MaskConfig]

\* The operators dictionary built from the method: a function from entity
\* type to operator configuration, empty for "replace" (and for any other
\* value).
BuildOperators(method, entities) ==
  CASE method = "redact" ->
         [e \in entities |-> [op |-> "redact", masking_char |-> "",
                              chars_to_mask |-> 0, from_end |-> FALSE]]
    [] method = "hash" ->
         [e \in entities |-> [op |-> "hash", masking_char |-> "",
                              chars_to_mask |-> 0, from_end |-> FALSE]]
    [] method = "mask" -> [e \in entities |-> MaskConfig]
    [] OTHER -> [e \in {} |-> MaskConfig]

\* The collaborator's default operator: the span becomes its type's label.
DefaultConfig ==
  [op |-> "replace", masking_char |-> "", chars_to_mask |-> 0, from_end |-> FALSE]

\* What one operator makes of the text of one span.
ApplyOperator(cfg, type, t) ==
  CASE cfg.op = "redact" -> <<>>
    [] cfg.op = "hash" -> <<"<sha256>">>
    [] cfg.op = "mask" ->
         LET k == IF Len(t) < cfg.chars_to_mask THEN Len(t) ELSE cfg.chars_to_mask
         IN  [i \in 1..Len(t) |->
                IF (IF cfg.from_end THEN i > Len(t) - k ELSE i <= k)
                  THEN cfg.masking_char ELSE t[i]]
    [] OTHER -> <<"<" \o type \o ">">>

\* anonymizer.anonymize(text, analyzer_results, operators): the spans
\* (ordered by position, disjoint; start 0-based, end exclusive) rewritten
\* from the last to the first, each by the operator of its type, or by the
\* default operator where the dictionary has none.
RECURSIVE AnonymizerAnonymize(_, _, _)
AnonymizerAnonymize(text, results, operators) ==
  IF Len(results) = 0 THEN text
  ELSE LET r == results[Len(results)]
           cfg == IF r.type \in DOMAIN operators THEN operators[r.type]
                  ELSE DefaultConfig
           done == SubSeq(text, 1, r.start)
                     \o ApplyOperator(cfg, r.type, SubSeq(text, r.start + 1, r.end))
                     \o SubSeq(text, r.end + 1, Len(text))
       IN  AnonymizerAnonymize(done, SubSeq(results, 1, Len(results) - 1), operators)

\* The same function with an except clause that returns the empty text.
AnonymizeReturnsEmpty(text, results, entities, method, detectRaises, transformRaises) ==
  IF detectRaises \/ transformRaises
    THEN <<>>
    ELSE AnonymizerAnonymize(text, results, BuildOperators(method, entities))

\* anonymize_text_presidio: results is what analyzer.analyze returns;
\* detectRaises / transformRaises say whether analyzer.analyze /
\* anonymizer.anonymize raises.  Either way the except clause returns the
\* text it was given.
anonymize_text_presidio(text, results, entities, method, detectRaises, transformRaises) ==
  IF detectRaises \/ transformRaises
    THEN text
    ELSE AnonymizerAnonymize(text, results, BuildOperators(method, entities))

(***************************************************************************)
(* The writer: the second dispatch on file_ext.                            *)
(***************************************************************************)
\* new_file_name: file.replace(ext, "_anonymized" + ext), with ".txt" as
\* the new extension for .odt.
NewFileName(file, file_ext) ==
  IF file_ext = ExtOdt
    THEN Replace(file, ExtOdt, Marker \o ExtTxt)
    ELSE Replace(file, file_ext, Marker \o file_ext)

\* The rows csv.writer is given: line.split() for each line with
\* line.strip() non-empty.
RECURSIVE CsvOutRows(_)
CsvOutRows(lines) ==
  IF Len(lines) = 0 THEN <<>>
  ELSE (IF SplitWords(Head(lines)) # <<>> THEN <<SplitWords(Head(lines))>> ELSE <<>>)
         \o CsvOutRows(Tail(lines))

\* What the writer of the format puts into the output file.
WrittenContent(file_ext, anonymized_text) ==
  CASE file_ext = ExtDocx ->
         [kind |-> "docx", body |-> SplitLines(anonymized_text)]
    [] file_ext = ExtPdf -> [kind |-> "pdf", body |-> <<anonymized_text>>]
    [] file_ext = ExtCsv ->
         [kind |-> "csv", body |-> CsvOutRows(SplitLines(anonymized_text))]
    [] OTHER -> [kind |-> "text", body |-> <<anonymized_text>>]

(***************************************************************************)
(* State.                                                                  *)
(***************************************************************************)
VARIABLES
  tree,             \* the input directory as os.walk yields it
  inputDirectory,   \* inputDirectoryButton.currentPath (<<>>: empty)
  outputDirectory,  \* outputDirectoryButton.currentPath (<<>>: empty)
  depsInstalled,    \* whether presidio and docx can be imported
  checked,          \* the entity types whose checkbox is checked
  methodData,       \* anonymizationMethodCombo.currentData
  clicksLeft,       \* clicks on the Anonymize button still to come
  stack,            \* the activations of onAnonymizeButton, innermost last
  outputDir,        \* the files of the output directory: name -> content
  report,           \* file_mappings.csv: [written, rows]
  progressVisible,  \* progressBar.visible
  progressMaximum,  \* progressBar.maximum
  progressValue,    \* progressBar.value
  statusLabel,      \* statusLabel.text: [what, arg]
  dialog,           \* the title of the last message box shown
  uuidCount,        \* the number of uuid4() calls so far
  returned,         \* how the last activation ended: [how, n]
  call              \* a call of anonymize_text_presidio: arguments and result

vars ==
  <<tree, inputDirectory, outputDirectory, depsInstalled, checked, methodData,
    clicksLeft, stack, outputDir, report, progressVisible, progressMaximum,
    progressValue, statusLabel, dialog, uuidCount, returned, call>>

widget == <<tree, inputDirectory, outputDirectory, depsInstalled, checked, methodData>>

\* The activation that is running (the innermost one).
Top == stack[Len(stack)]

\* The stack with field f of the running activation set to v, ...
SetTop(fr) == [stack EXCEPT ![Len(stack)] = fr]

Pop == SubSeq(stack, 1, Len(stack) - 1)

\* "ERROR"
ErrorName == <<"E", "R", "R", "O", "R">>

\* The number of directory entries of a tree.
RECURSIVE NumEntries(_)
NumEntries(walk) ==
  IF Len(walk) = 0 THEN 0 ELSE Len(Head(walk).files) + NumEntries(Tail(walk))

\* The methods the runs of the model are configured with: the one that
\* builds no operators and one that builds an operator per entity type.
RunMethods == {"replace", "mask"}

\* The checkbox states of the model: none checked, or the default ones.
CheckedChoices == {{}, DefaultChecked}

\* No call of anonymize_text_presidio is observed.
NoCall ==
  [text |-> <<>>, results |-> <<>>, entities |-> {}, method |-> "", fail |-> "none",
   returned |-> FALSE, out |-> <<>>]

Init ==
  /\ tree \in Trees
  /\ inputDirectory \in {<<>>, InputFolder}
  /\ outputDirectory \in {<<>>, OutputFolder}
  /\ depsInstalled \in BOOLEAN
  /\ checked \in CheckedChoices
  /\ methodData \in RunMethods
  /\ clicksLeft \in 1..MaxClicks
  /\ NumEntries(tree) * clicksLeft <= MaxFiles
  /\ stack = <<>>
  /\ outputDir = [n \in {} |-> 0]
  /\ report = [written |-> FALSE, rows |-> <<>>]
  /\ progressVisible = FALSE
  /\ progressMaximum = 100
  /\ progressValue = -1
  /\ statusLabel = [what |-> "", arg |-> <<>>]
  /\ dialog = ""
  /\ uuidCount = 0
  /\ returned = [how |-> "none", n |-> 0]
  /\ call = NoCall

(***************************************************************************)
(* onAnonymizeButton.                                                      *)
(***************************************************************************)
\* The checks that open onAnonymizeButton: the title of the warning shown,
\* or "" when the run may start.
Validate ==
  IF inputDirectory = <<>> THEN "Input Required"
  ELSE IF outputDirectory = <<>> THEN "Input Required"
  ELSE IF ~depsInstalled THEN "Dependencies Not Installed"
  ELSE IF checked = {} THEN "No Options Selected"
  ELSE ""

\* The button is connected in setup and never disabled: a click is
\* dispatched when no activation runs, and also while the running activation
\* is inside one of its two slicer.app.processEvents() calls.
CanDispatchClick ==
  /\ clicksLeft > 0
  /\ (IF stack = <<>> THEN TRUE ELSE Top.pc \in {"pump1", "pump2"})

\* What is noted of the pass through the loop body that has just ended
\* (nothing, outside the second processEvents() of the body).
NoOutcome ==
  [extract |-> "none", engine |-> "none", write |-> "none",
   full_text |-> <<>>, written |-> <<>>]

\* A click that one of the opening checks turns down.
ClickRejected ==
  /\ CanDispatchClick
  /\ Validate # ""
  /\ clicksLeft' = clicksLeft - 1
  /\ dialog' = Validate
  /\ returned' = [how |-> "rejected", n |-> 0]
  /\ UNCHANGED <<widget, call, stack, outputDir, report, progressVisible,
                 progressMaximum, progressValue, statusLabel, uuidCount>>

\* A click that passes the checks: the configuration is read into locals
\* and the engines are built.
ClickAccepted ==
  /\ CanDispatchClick
  /\ Validate = ""
  /\ clicksLeft' = clicksLeft - 1
  /\ stack' = Append(stack,
       [pc |-> "discover",
        selected_entities |-> checked,
        anonymization_method |-> methodData,
        input_folder |-> inputDirectory,
        output_folder |-> outputDirectory,
        supported_files |-> <<>>,
        idx |-> 0,
        file |-> <<>>,
        unique_id |-> "",
        file_ext |-> <<>>,
        full_text |-> <<>>,
        anonymized_text |-> <<>>,
        engineRaised |-> FALSE,
        textFailAt |-> 0,
        tableFailAt |-> 0,
        file_mappings |-> <<>>,
        last |-> NoOutcome])
  /\ UNCHANGED <<widget, call, outputDir, report, progressVisible, progressMaximum,
                 progressValue, statusLabel, dialog, uuidCount, returned>>

\* A walk that finds no supported file and falls through to the report
\* instead of returning.
DiscoverNoneFallsThrough ==
  /\ stack # <<>>
  /\ Top.pc = "discover"
  /\ SupportedFiles(tree) = <<>>
  /\ stack' = SetTop([Top EXCEPT !.pc = "save"])
  /\ progressVisible' = TRUE
  /\ UNCHANGED <<widget, call, clicksLeft, outputDir, report, progressMaximum,
                 progressValue, statusLabel, dialog, uuidCount, returned>>

\* The walk finds no supported file: 'No Files Found', return.
DiscoverNone ==
  /\ stack # <<>>
  /\ Top.pc = "discover"
  /\ SupportedFiles(tree) = <<>>
  /\ dialog' = "No Files Found"
  /\ stack' = Pop
  /\ returned' = [how |-> "nofiles", n |-> 0]
  /\ UNCHANGED <<widget, call, clicksLeft, outputDir, report, progressVisible,
                 progressMaximum, progressValue, statusLabel, uuidCount>>

\* The walk finds files: the progress bar is shown and file_mappings = [].
DiscoverSome ==
  /\ stack # <<>>
  /\ Top.pc = "discover"
  /\ SupportedFiles(tree) # <<>>
  /\ stack' = SetTop([Top EXCEPT !.supported_files = SupportedFiles(tree),
                                 !.file_mappings = <<>>,
                                 !.idx = 0,
                                 !.pc = "enter"])
  /\ progressVisible' = TRUE
  /\ progressMaximum' = Len(SupportedFiles(tree))
  /\ progressValue' = 0
  /\ UNCHANGED <<widget, call, clicksLeft, outputDir, report, statusLabel, dialog,
                 uuidCount, returned>>

\* The head of the loop body: file = basename(path), status "Processing".
EnterFile ==
  /\ stack # <<>>
  /\ Top.pc = "enter"
  /\ LET file == Basename(Top.supported_files[Top.idx + 1])
     IN  /\ stack' = SetTop([Top EXCEPT !.file = file, !.pc = "pump1"])
         /\ statusLabel' = [what |-> "Processing", arg |-> file]
  /\ UNCHANGED <<widget, call, clicksLeft, outputDir, report, progressVisible,
                 progressMaximum, progressValue, dialog, uuidCount, returned>>

\* slicer.app.processEvents() returns: at the head of the body, on to the
\* extraction; at the end of the body, on to the next file or, after the
\* last, to the report.
ProcessEventsReturns ==
  /\ stack # <<>>
  /\ Top.pc \in {"pump1", "pump2"}
  /\ stack' = SetTop(
       IF Top.pc = "pump1" THEN [Top EXCEPT !.pc = "extract"]
       ELSE IF Top.idx + 1 < Len(Top.supported_files)
         THEN [Top EXCEPT !.idx = Top.idx + 1, !.last = NoOutcome, !.pc = "enter"]
         ELSE [Top EXCEPT !.last = NoOutcome, !.pc = "save"])
  /\ UNCHANGED <<widget, call, clicksLeft, outputDir, report, progressVisible,
                 progressMaximum, progressValue, statusLabel, dialog, uuidCount,
                 returned>>

\* An except clause that records the file under its own name and keeps the
\* bare message.
ErrorRecordNoSentinel(file, msg) ==
  [orig |-> file, anon |-> file, third |-> msg]

\* The record appended by the except clause of the loop body.
ErrorRecord(file, msg) ==
  [orig |-> file, anon |-> ErrorName, third |-> <<"Error: ">> \o msg]

\* The record appended at the end of the try block.
SuccessRecord(file, new_file_name, unique_id) ==
  [orig |-> file, anon |-> new_file_name, third |-> <<unique_id>>]

\* A loop body whose except clause only logs: a failed file leaves no record.
RecordedUnlessError(fr, rec, entry) ==
  [fr EXCEPT !.file_mappings =
               IF entry.extract = "raised" \/ entry.write = "raised"
                 THEN fr.file_mappings ELSE Append(fr.file_mappings, rec),
             !.last = entry,
             !.full_text = <<>>,
             !.anonymized_text = <<>>,
             !.engineRaised = FALSE,
             !.pc = "pump2"]

\* The end of one pass through the loop body: the record is appended (the
\* outcome of the pass is noted, the temporaries are dead) and the loop goes
\* on to progressBar.setValue(idx + 1) and the second processEvents().
Recorded(fr, rec, entry) ==
  [fr EXCEPT !.file_mappings = Append(fr.file_mappings, rec),
             !.last = entry,
             !.full_text = <<>>,
             !.anonymized_text = <<>>,
             !.engineRaised = FALSE,
             !.pc = "pump2"]

\* The failure points of the .pdf branch that the model draws.
PdfFailPoints(file_ext) == IF file_ext = ExtPdf THEN 0..Len(PdfPages) ELSE {0}

\* unique_id, file_ext and the extraction, when the extraction returns.
ExtractOk ==
  /\ stack # <<>>
  /\ Top.pc = "extract"
  /\ LET file_ext == Lower(SplitExt(Top.file))
     IN  \E textFailAt \in PdfFailPoints(file_ext) :
         \E tableFailAt \in (IF textFailAt = 0 THEN {0} ELSE PdfFailPoints(file_ext)) :
           LET res == ExtractText(file_ext, textFailAt, tableFailAt)
           IN  /\ ~res.raised
               /\ stack' = SetTop([Top EXCEPT !.unique_id = ToString(uuidCount + 1),
                                              !.file_ext = file_ext,
                                              !.full_text = res.text,
                                              !.textFailAt = textFailAt,
                                              !.tableFailAt = tableFailAt,
                                              !.pc = "anonymize"])
  /\ uuidCount' = uuidCount + 1
  /\ UNCHANGED <<widget, call, clicksLeft, outputDir, report, progressVisible,
                 progressMaximum, progressValue, statusLabel, dialog, returned>>

\* The messages of the exceptions the extraction may raise: the ValueError
\* of the else branch, or an error of the reader of the format.
ExtractErrors(file_ext) ==
  IF ExtractText(file_ext, 0, 0).raised
    THEN {ExtractText(file_ext, 0, 0).text}
    ELSE {<<"read error">>}

\* The extraction raises: the except clause appends the error record, and
\* the progress bar advances.
ExtractRaises ==
  /\ stack # <<>>
  /\ Top.pc = "extract"
  /\ LET file_ext == Lower(SplitExt(Top.file))
     IN  \E msg \in ExtractErrors(file_ext) :
           stack' = SetTop(Recorded(
             [Top EXCEPT !.unique_id = ToString(uuidCount + 1), !.file_ext = file_ext],
             ErrorRecord(Top.file, msg),
             [extract |-> "raised", engine |-> "none", write |-> "none",
              full_text |-> <<>>, written |-> <<>>]))
  /\ uuidCount' = uuidCount + 1
  /\ progressValue' = Top.idx + 1
  /\ UNCHANGED <<widget, call, clicksLeft, outputDir, report, progressVisible,
                 progressMaximum, statusLabel, dialog, returned>>

\* What analyzer.analyze may return in a run: nothing, or the first
\* character as a PERSON when that type is selected.
RunResults(text, entities) ==
  {<<>>} \cup
  (IF Len(text) > 0 /\ "PERSON" \in entities
     THEN {<<[start |-> 0, end |-> 1, type |-> "PERSON"]>>} ELSE {})

\* The call of anonymize_text_presidio.
Anonymize ==
  /\ stack # <<>>
  /\ Top.pc = "anonymize"
  /\ \E results \in RunResults(Top.full_text, Top.selected_entities) :
     \E fail \in {"none", "detect", "transform"} :
       stack' = SetTop(
         [Top EXCEPT !.anonymized_text =
                       anonymize_text_presidio(Top.full_text, results,
                         Top.selected_entities, Top.anonymization_method,
                         fail = "detect", fail = "transform"),
                     !.engineRaised = (fail # "none"),
                     !.pc = "write"])
  /\ UNCHANGED <<widget, call, clicksLeft, outputDir, report, progressVisible,
                 progressMaximum, progressValue, statusLabel, dialog, uuidCount,
                 returned>>

\* The outcome of a pass that reached the writer.
WriteEntry(fr, how) ==
  [extract |-> "ok", engine |-> IF fr.engineRaised THEN "raised" ELSE "ok",
   write |-> how, full_text |-> fr.full_text, written |-> fr.anonymized_text]

\* The writer of the format returns: the output file is written at
\* output_folder/new_file_name, the success record is appended and the
\* progress bar advances.
WriteOk ==
  /\ stack # <<>>
  /\ Top.pc = "write"
  /\ LET new_file_name == NewFileName(Top.file, Top.file_ext)
         output_path == PathJoin(Top.output_folder, new_file_name)
         content == [src |-> Top.supported_files[Top.idx + 1],
                     content |-> WrittenContent(Top.file_ext, Top.anonymized_text)]
     IN  /\ outputDir' = [p \in DOMAIN outputDir \cup {output_path} |->
                            IF p = output_path THEN content ELSE outputDir[p]]
         /\ stack' = SetTop(Recorded(Top,
              SuccessRecord(Top.file, new_file_name, Top.unique_id),
              WriteEntry(Top, "ok")))
  /\ progressValue' = Top.idx + 1
  /\ UNCHANGED <<widget, call, clicksLeft, report, progressVisible, progressMaximum,
                 statusLabel, dialog, uuidCount, returned>>

\* The writer raises (the output file cannot be created): the except clause
\* appends the error record, and the progress bar advances.
WriteRaises ==
  /\ stack # <<>>
  /\ Top.pc = "write"
  /\ stack' = SetTop(Recorded(Top,
       ErrorRecord(Top.file, <<"write error">>), WriteEntry(Top, "raised")))
  /\ progressValue' = Top.idx + 1
  /\ UNCHANGED <<widget, call, clicksLeft, outputDir, report, progressVisible,
                 progressMaximum, statusLabel, dialog, uuidCount, returned>>

\* mappings_df.to_csv(csv_file_path, index=False): the header, then one row
\* per record.
RECURSIVE RecordRows(_)
RecordRows(file_mappings) ==
  IF Len(file_mappings) = 0 THEN <<>>
  ELSE << <<Head(file_mappings).orig, Head(file_mappings).anon,
            Head(file_mappings).third>> >> \o RecordRows(Tail(file_mappings))

ReportRows(file_mappings) ==
  << << <<"Original File Name">>, <<"Anonymized File Name">>, <<"UUID">> >> >>
    \o RecordRows(file_mappings)

\* "Save mappings": the report is written when the frame is not empty, and
\* 'Anonymization Complete' is shown.
SaveMappings ==
  /\ stack # <<>>
  /\ Top.pc = "save"
  /\ IF Top.file_mappings # <<>>
       THEN /\ report' = [written |-> TRUE, rows |-> ReportRows(Top.file_mappings)]
            /\ statusLabel' = [what |-> "Complete",
                               arg |-> <<ToString(Len(Top.supported_files))>>]
            /\ dialog' = "Anonymization Complete"
       ELSE /\ statusLabel' = [what |-> "No valid files were processed.", arg |-> <<>>]
            /\ UNCHANGED <<report, dialog>>
  /\ stack' = SetTop([Top EXCEPT !.pc = "hide"])
  /\ UNCHANGED <<widget, call, clicksLeft, outputDir, progressVisible, progressMaximum,
                 progressValue, uuidCount, returned>>

\* to_csv raises (the report cannot be created): nothing catches it, and
\* the exception leaves onAnonymizeButton.
SaveMappingsRaises ==
  /\ stack # <<>>
  /\ Top.pc = "save"
  /\ Top.file_mappings # <<>>
  /\ stack' = Pop
  /\ returned' = [how |-> "raised", n |-> Len(Top.supported_files)]
  /\ UNCHANGED <<widget, call, clicksLeft, outputDir, report, progressVisible,
                 progressMaximum, progressValue, statusLabel, dialog, uuidCount>>

\* progressBar.setVisible(False), and the handler returns.
Finish ==
  /\ stack # <<>>
  /\ Top.pc = "hide"
  /\ progressVisible' = FALSE
  /\ stack' = Pop
  /\ returned' = [how |-> "done", n |-> Len(Top.supported_files)]
  /\ UNCHANGED <<widget, call, clicksLeft, outputDir, report, progressMaximum,
                 progressValue, statusLabel, dialog, uuidCount>>

\* The steps of the running activation.
RunStep ==
  \/ DiscoverNone
  \/ DiscoverSome
  \/ EnterFile
  \/ ProcessEventsReturns
  \/ ExtractOk
  \/ ExtractRaises
  \/ Anonymize
  \/ WriteOk
  \/ WriteRaises
  \/ SaveMappings
  \/ SaveMappingsRaises
  \/ Finish

Next ==
  \/ ClickRejected
  \/ ClickAccepted
  \/ RunStep

Spec == Init /\ [][Next]_vars

\* The handler runs on the GUI thread until it returns: a step of the
\* running activation that can be taken is taken.  Clicks are the user's.
FairSpec == Spec /\ WF_vars(RunStep)

(***************************************************************************)
(* anonymize_text_presidio on its own: one call with arguments drawn from  *)
(* bounded sets.                                                           *)
(***************************************************************************)
\* The texts: every text over two letters up to MaxLen characters, and one
\* text longer than chars_to_mask.
Letters == {"a", "b"}

ShortTexts == UNION {[1..n -> Letters] : n \in 0..MaxLen}

LongText == [i \in 1..(CharsToMask + MaxOver) |-> IF i % 2 = 1 THEN "a" ELSE "b"]

Texts == ShortTexts \cup {LongText}

\* The offsets at which a span of the text may start or end.
Offsets(text) ==
  IF Len(text) <= MaxLen THEN 0..Len(text)
  ELSE (0..MaxOver) \cup ((Len(text) - MaxOver)..Len(text))

\* The spans of a text: start (0-based) before end (exclusive), of a type
\* among the entities asked for.
Spans(text, entities) ==
  {[start |-> a, end |-> b, type |-> e] :
     a \in Offsets(text), b \in Offsets(text), e \in entities}
  \ {r \in [start : Offsets(text), end : Offsets(text), type : entities] :
       r.start >= r.end}

\* What analyzer.analyze(text, entities) may return: up to MaxSpans spans of
\* the entities asked for, in order of position, not overlapping.
AnalyzerResults(text, entities) ==
  {rs \in UNION {[1..n -> Spans(text, entities)] : n \in 0..MaxSpans} :
     \A i \in 1..(Len(rs) - 1) : rs[i].end <= rs[i + 1].start}

\* The entity lists of the calls.
EntityChoices == {{"PERSON"}, {"PERSON", "LOCATION"}}

InitEngine ==
  /\ tree = CHOOSE t \in Trees : NumEntries(t) = 0
  /\ inputDirectory = InputFolder
  /\ outputDirectory = OutputFolder
  /\ depsInstalled = TRUE
  /\ checked = DefaultChecked
  /\ methodData = "mask"
  /\ clicksLeft = 0
  /\ stack = <<>>
  /\ outputDir = [n \in {} |-> 0]
  /\ report = [written |-> FALSE, rows |-> <<>>]
  /\ progressVisible = FALSE
  /\ progressMaximum = 100
  /\ progressValue = -1
  /\ statusLabel = [what |-> "", arg |-> <<>>]
  /\ dialog = ""
  /\ uuidCount = 0
  /\ returned = [how |-> "none", n |-> 0]
  /\ \E text \in Texts, entities \in EntityChoices, method \in Methods,
        fail \in {"none", "detect", "transform"} :
       \E results \in AnalyzerResults(text, entities) :
         call = [text |-> text, results |-> results, entities |-> entities,
                 method |-> method, fail |-> fail, returned |-> FALSE,
                 out |-> <<>>]

\* The call returns.
CallEngine ==
  /\ ~call.returned
  /\ call.method # ""
  /\ call' = [call EXCEPT
                !.returned = TRUE,
                !.out = anonymize_text_presidio(call.text, call.results,
                          call.entities, call.method, call.fail = "detect",
                          call.fail = "transform")]
  /\ UNCHANGED <<widget, clicksLeft, stack, outputDir, report, progressVisible,
                 progressMaximum, progressValue, statusLabel, dialog, uuidCount,
                 returned>>

NextEngine == CallEngine

SpecEngine == InitEngine /\ [][NextEngine]_vars

(***************************************************************************)
(* Properties.                                                             *)
(***************************************************************************)
\* The activations on the stack.
Frames == {stack[d] : d \in 1..Len(stack)}

\* The activation has left the processing loop.
AfterLoop(fr) == fr.pc \in {"save", "hide"}

\* The record is a success record / an error record.
IsSuccess(rec) == rec.anon # ErrorName
IsError(rec) ==
  /\ rec.anon = ErrorName
  /\ Len(rec.third) > 1
  /\ rec.third[1] = "Error: "

\* The pass with outcome e failed in the extractor or in the writer.
Failed(e) == e.extract = "raised" \/ e.write = "raised"

\* The activation has just ended its pass for file idx + 1.
PassEnded(fr) == fr.pc = "pump2"

\* C1: after the processing loop of a run that discovered N >= 1 files,
\* file_mappings holds exactly N records, the i-th for the i-th discovered
\* file (its base name), whatever the mix of successes and failures; inside
\* the loop it holds one record per file whose pass has ended.
C1_OneRecordPerFile ==
  \A fr \in Frames :
    /\ Len(fr.file_mappings) =
         (IF AfterLoop(fr) THEN Len(fr.supported_files)
          ELSE IF PassEnded(fr) THEN fr.idx + 1 ELSE fr.idx)
    /\ \A i \in 1..Len(fr.file_mappings) :
         fr.file_mappings[i].orig = Basename(fr.supported_files[i])
    /\ AfterLoop(fr) => Len(fr.supported_files) >= 1

\* A run has left the loop with two files, one failed and one succeeded.
C1_Witness ==
  \E fr \in Frames :
    /\ AfterLoop(fr)
    /\ Len(fr.supported_files) = 2
    /\ IsError(fr.file_mappings[1])
    /\ IsSuccess(fr.file_mappings[2])

\* C2: a file whose extraction or writing raised gets the record ("ERROR",
\* "Error: <message>"), and the run goes on: every file after it is
\* processed, and every file that does not fail gets a success record and
\* its output file.
C2_FailureIsolated ==
  \A fr \in Frames :
    /\ PassEnded(fr) =>
         /\ Len(fr.file_mappings) = fr.idx + 1
         /\ Failed(fr.last) <=> IsError(fr.file_mappings[fr.idx + 1])
         /\ ~Failed(fr.last) <=> IsSuccess(fr.file_mappings[fr.idx + 1])
    /\ \A i \in 1..Len(fr.file_mappings) :
         \/ IsError(fr.file_mappings[i])
         \/ /\ IsSuccess(fr.file_mappings[i])
            /\ fr.file_mappings[i].third # <<>>
            /\ fr.file_mappings[i].third[1] # "Error: "
            /\ PathJoin(fr.output_folder, fr.file_mappings[i].anon)
                 \in DOMAIN outputDir
    /\ AfterLoop(fr) => Len(fr.file_mappings) = Len(fr.supported_files)

\* The pass of the second of two files has ended without failure, after
\* the first file failed: the second was still processed and written.
C2_Witness ==
  \E fr \in Frames :
    /\ PassEnded(fr)
    /\ fr.idx = 1
    /\ ~Failed(fr.last)
    /\ IsError(fr.file_mappings[1])
    /\ PathJoin(fr.output_folder, fr.file_mappings[2].anon) \in DOMAIN outputDir

\* C3: when the input directory holds no supported file, a run ends with
\* 'No Files Found' straight after discovery: nothing is extracted,
\* anonymized or written, no record is made, and file_mappings.csv is not
\* written.
C3_NoFilesNoReport ==
  SupportedFiles(tree) = <<>> =>
    /\ ~report.written
    /\ DOMAIN outputDir = {}
    /\ uuidCount = 0
    /\ ~progressVisible
    /\ \A fr \in Frames : fr.pc = "discover" /\ fr.file_mappings = <<>>
    /\ returned.how \in {"none", "rejected", "nofiles"}
    /\ returned.n = 0
    /\ (returned.how = "nofiles" => dialog = "No Files Found")

\* A run over a non-empty directory without supported files has ended.
C3_Witness ==
  /\ returned.how = "nofiles"
  /\ NumEntries(tree) > 0
  /\ stack = <<>>

\* C4: distinct discovered input files are written to distinct output
\* paths: in a run, no two success records name the same output file, and
\* the output file of a success record of the running activation holds what
\* was written for that record's input file.
C4_DistinctOutputs ==
  \A fr \in Frames :
    \A i, j \in 1..Len(fr.file_mappings) :
      (i # j /\ IsSuccess(fr.file_mappings[i]) /\ IsSuccess(fr.file_mappings[j]))
        => fr.file_mappings[i].anon # fr.file_mappings[j].anon

\* C5: the output name of a success record is <stem> + "_anonymized" + <ext>
\* with the marker once, before the final extension (".txt" for .odt).
C5_OutputName ==
  \A fr \in Frames :
    \A i \in 1..Len(fr.file_mappings) :
      IsSuccess(fr.file_mappings[i]) =>
        LET file == fr.file_mappings[i].orig
            ext == SplitExt(file)
            stem == SubSeq(file, 1, Len(file) - Len(ext))
        IN  fr.file_mappings[i].anon =
              stem \o Marker \o (IF Lower(ext) = ExtOdt THEN ExtTxt ELSE ext)

\* C6: when analyzer.analyze or anonymizer.anonymize raised for a file,
\* anonymize_text_presidio returned the extracted text unchanged, that text
\* is what the writer was given, and the record of the file is a success
\* record (output name and uuid); it is an error record only if the writer
\* itself raised.
C6_EngineFailurePassesThrough ==
  \A fr \in Frames :
    /\ (fr.pc = "write" /\ fr.engineRaised) => fr.anonymized_text = fr.full_text
    /\ (PassEnded(fr) /\ fr.last.engine = "raised") =>
         /\ fr.last.written = fr.last.full_text
         /\ fr.last.write = "ok" =>
              /\ fr.file_mappings[fr.idx + 1].anon =
                   NewFileName(fr.file, fr.file_ext)
              /\ fr.file_mappings[fr.idx + 1].third = <<fr.unique_id>>
         /\ IsError(fr.file_mappings[fr.idx + 1]) => fr.last.write = "raised"

\* The engine raised for a file with text, and the file has its success
\* record.
C6_Witness ==
  \E fr \in Frames :
    /\ PassEnded(fr)
    /\ fr.last.engine = "raised"
    /\ fr.last.write = "ok"
    /\ fr.last.full_text # <<>>
    /\ IsSuccess(fr.file_mappings[fr.idx + 1])

\* C8: a file whose extension is not one of the six, or whose name begins
\* with "~$", gets no mapping record, and the ValueError of the else branch
\* of the extractor is never the source of an error record.
C8_UnsupportedExcluded ==
  \A fr \in Frames :
    /\ \A i \in 1..Len(fr.file_mappings) :
         LET file == fr.file_mappings[i].orig
         IN  /\ Lower(SplitExt(file)) \in SupportedSuffixes
             /\ ~StartsWith(file, LockPrefix)
    /\ \A i \in 1..Len(fr.file_mappings) :
         ~StartsWith(fr.file_mappings[i].third, <<"Error: ">> \o UnsupportedMsg)

\* C10: no two files' processing overlaps: while an activation is between
\* the head of the loop body and the append of the file's record, no other
\* activation is.
InFile(fr) == fr.pc \in {"pump1", "extract", "anonymize", "write"}

C10_NoOverlap ==
  \A d, e \in 1..Len(stack) :
    (d # e) => ~(InFile(stack[d]) /\ InFile(stack[e]))

\* Whether character i (1-based) of the text lies within the first
\* chars_to_mask characters of one of the spans.
InMaskedPart(results, i) ==
  \E k \in 1..Len(results) :
    /\ results[k].start < i
    /\ i <= results[k].end
    /\ i - results[k].start <= CharsToMask

\* The text with the first chars_to_mask characters of every span masked.
MaskedText(text, results) ==
  [i \in 1..Len(text) |-> IF InMaskedPart(results, i) THEN "*" ELSE text[i]]

\* C7 (as amended): with method = mask, when neither analyzer.analyze nor
\* anonymizer.anonymize raises, the returned text has every character of
\* every detected span (up to 100 from the span's start) replaced by '*' and
\* every other character unchanged; when one of them raises, the text is
\* returned unchanged.  The operators dictionary maps exactly the enabled
\* entity types, each to mask('*', 100, from the start).
C7_MaskWhenEngineReturns ==
  (call.returned /\ call.method = "mask") =>
    /\ call.fail = "none" => call.out = MaskedText(call.text, call.results)
    /\ call.fail # "none" => call.out = call.text
    /\ LET operators == BuildOperators(call.method, call.entities)
       IN  /\ DOMAIN operators = call.entities
           /\ \A e \in call.entities :
                /\ operators[e].op = "mask"
                /\ operators[e].masking_char = "*"
                /\ operators[e].chars_to_mask = 100
                /\ operators[e].from_end = FALSE

\* A mask call that returned, with a span longer than chars_to_mask whose
\* first 100 characters are masked and whose others are not.
C7_Witness ==
  /\ call.returned
  /\ call.method = "mask"
  /\ call.fail = "none"
  /\ \E k \in 1..Len(call.results) :
       /\ call.results[k].end - call.results[k].start > CharsToMask
       /\ call.out[call.results[k].start + 1] = "*"
       /\ call.out[call.results[k].end] # "*"

\* C7 (as stated): with method = mask, for every input text the returned
\* text has the spans masked and the rest unchanged.
C7_MaskAlways ==
  (call.returned /\ call.method = "mask") =>
    call.out = MaskedText(call.text, call.results)

\* C9: every run that discovered N >= 1 files reaches Done: when its
\* activation has ended, the report has been written with its N records and
\* the progress bar has been hidden.
C9_RunReachesDone ==
  (returned.how \in {"done", "raised"} /\ returned.n >= 1) =>
    /\ returned.how = "done"
    /\ report.written
    /\ stack = <<>> => ~progressVisible

\* What the pages contribute when each page is handled on its own and no
\* call raises: the text of the page, or, for a page without text layer, the
\* rows of its tables.
RECURSIVE PerPageText(_)
PerPageText(pages) ==
  IF Len(pages) = 0 THEN <<>>
  ELSE (IF Head(pages).text # <<>> THEN Head(pages).text \o <<"\n">>
        ELSE PdfTablesText(Head(pages).tables))
         \o PerPageText(Tail(pages))

\* The texts in which every page contributes, in page order, at most once:
\* its text, or the rows of its tables, or nothing.
RECURSIVE OncePerPageTexts(_)
OncePerPageTexts(pages) ==
  IF Len(pages) = 0 THEN {<<>>}
  ELSE {c \o rest :
          c \in {Head(pages).text \o <<"\n">>, PdfTablesText(Head(pages).tables), <<>>},
          rest \in OncePerPageTexts(Tail(pages))}

\* The activation holds the text extracted from a .pdf file.
PdfExtracted(fr) == fr.pc \in {"anonymize", "write"} /\ fr.file_ext = ExtPdf

\* C11: the text of a .pdf file is taken per page in page order; a page
\* without text layer contributes the rows of its tables (the fallback on
\* that page), so when no call raises the text is the concatenation of these
\* contributions; whatever raises, the file is extracted without error and
\* no page contributes more than once.
C11_PerPageFallback ==
  \A fr \in Frames :
    PdfExtracted(fr) =>
      /\ fr.textFailAt = 0 => fr.full_text = PerPageText(PdfPages)
      /\ fr.full_text \in OncePerPageTexts(PdfPages)

\* The file has the format tag of one of the six formats: its extension,
\* taken case-insensitively, is a supported one, and it is no lock file.
HasFormatTag(file) ==
  /\ Lower(SplitExt(file)) \in SupportedSuffixes
  /\ ~StartsWith(file, LockPrefix)

\* C12: a file whose extension is a supported one up to letter case (such
\* as N.TXT) is discovered and gets a mapping record, as the lower-case
\* spelling would: a run over a tree that holds such a file does not end
\* with 'No Files Found', has the file among its supported files, and has a
\* record for it after the loop.
C12_CaseInsensitiveTag ==
  \A path \in AllPaths(tree) :
    HasFormatTag(Basename(path)) =>
      /\ returned.how # "nofiles"
      /\ \A fr \in Frames :
           /\ fr.pc # "discover" =>
                \E i \in 1..Len(fr.supported_files) : fr.supported_files[i] = path
           /\ AfterLoop(fr) =>
                \E i \in 1..Len(fr.file_mappings) :
                  fr.file_mappings[i].orig = Basename(path)
=============================================================================
